---------------------------- MODULE Spec2Model ----------------------------
(* Two-tier cache decorator (cached_data_fetch) and cache-key derivation   *)
(* (_generate_cache_key) of china_stock_mcp/cache_utils.py.                *)
(*                                                                         *)
(* Spec     : the wrapper of one cache directory shared by the decorated   *)
(*            functions, one atomic action per wrapper call.               *)
(* SpecKey  : the pure function _generate_cache_key applied to bounded     *)
(*            invocations and to variations of them.                       *)
EXTENDS Integers, Sequences, FiniteSets, TLC

---------------------------------------------------------------------------
(* Bounds *)

\* positional arguments per invocation
MaxArgs == 2
\* last instant of the wall clock
MaxTime == 2
\* largest TTL a decorator is configured with
MaxTTL == 2

---------------------------------------------------------------------------
(* Python values passed as arguments.  Every value has the same shape:     *)
(* t is the Python type, s the text of a scalar, items the elements of a   *)
(* list or tuple.                                                          *)

PyStr(s) == [t |-> "str", s |-> s, items |-> <<>>]
PyInt(s) == [t |-> "int", s |-> s, items |-> <<>>]
\* an object json cannot serialise (a datetime.date, a Path); s is str(obj)
PyObj(s) == [t |-> "obj", s |-> s, items |-> <<>>]
PyList(xs) == [t |-> "list", s |-> "", items |-> xs]
PyTuple(xs) == [t |-> "tuple", s |-> "", items |-> xs]

Scalars == {PyStr("a"), PyStr("b"), PyObj("a"), PyInt("1")}
Values == Scalars \cup {PyList(<<PyInt("1")>>), PyTuple(<<PyInt("1")>>)}

\* keyword names and their order under Python's string comparison
KwNames == {"period", "symbol"}
NameOrd(n) == CASE n = "period" -> 1 [] n = "symbol" -> 2

---------------------------------------------------------------------------
(* json.dumps(..., ensure_ascii=False, default=str), as a sequence of      *)
(* output tokens.                                                          *)

Quoted(s) == <<"\"", s, "\"">>

\* the items of an array, each already written, separated by ", "
RECURSIVE JoinComma(_)
JoinComma(parts) ==
    IF parts = <<>> THEN <<>>
    ELSE IF Len(parts) = 1 THEN Head(parts)
    ELSE Head(parts) \o <<", ">> \o JoinComma(Tail(parts))

\* a scalar: str -> JSON string, int -> JSON number,
\* anything else -> default=str, whose result is written as a JSON string
DumpsScalar(v) ==
    CASE v.t = "str" -> Quoted(v.s)
      [] v.t = "int" -> <<v.s>>
      [] OTHER -> Quoted(v.s)

\* list and tuple are both written as a JSON array
Dumps(v) ==
    IF v.t \in {"list", "tuple"}
    THEN <<"[">> \o JoinComma([i \in 1..Len(v.items) |-> DumpsScalar(v.items[i])]) \o <<"]">>
    ELSE DumpsScalar(v)

\* one (name, value) item of kwargs: a 2-tuple, written as an array
DumpsItem(kv) == <<"[">> \o Quoted(kv[1]) \o <<", ">> \o Dumps(kv[2]) \o <<"]">>

\* sorted(kwargs.items(), key=lambda x: str(x[0])): stable insertion sort
RECURSIVE Insert(_, _)
Insert(kv, xs) ==
    IF xs = <<>> THEN <<kv>>
    ELSE IF NameOrd(kv[1]) < NameOrd(Head(xs)[1]) THEN <<kv>> \o xs
    ELSE <<Head(xs)>> \o Insert(kv, Tail(xs))

RECURSIVE SortedKwargsRev(_)
SortedKwargsRev(kw) ==
    IF kw = <<>> THEN <<>>
    ELSE Insert(kw[Len(kw)], SortedKwargsRev(SubSeq(kw, 1, Len(kw) - 1)))

sorted_kwargs(kw) == SortedKwargsRev(kw)

params_str(args, kw) ==
    <<"{", "\"args\"", ": ", "[">> \o JoinComma([i \in 1..Len(args) |-> Dumps(args[i])]) \o <<"]", ", ">>
    \o <<"\"kwargs\"", ": ", "[">> \o JoinComma([i \in 1..Len(kw) |-> DumpsItem(sorted_kwargs(kw)[i])])
    \o <<"]", "}">>

\* hashlib.sha256(...).hexdigest(): the digest is represented by the text
\* it was computed from (no two texts of the model share a digest)
Sha256(text) == <<"sha256">> \o text

---------------------------------------------------------------------------
(* Wrapped functions: module and __qualname__.  The repository defines     *)
(* get_hist_data in both of its server modules.                            *)

Funcs == {"akshare_one_mcp.server.get_hist_data",
          "china_stock_mcp.server.get_hist_data",
          "china_stock_mcp.server.get_news_data"}

QualName(f) ==
    CASE f = "akshare_one_mcp.server.get_hist_data" -> "get_hist_data"
      [] f = "china_stock_mcp.server.get_hist_data" -> "get_hist_data"
      [] f = "china_stock_mcp.server.get_news_data" -> "get_news_data"

_generate_cache_key(f, args, kw) == Sha256(<<QualName(f)>> \o params_str(args, kw))

---------------------------------------------------------------------------
(* The decorator cached_data_fetch.                                        *)

\* the decorated functions of one process; they share cache_dir
Decorated == {"akshare_one_mcp.server.get_hist_data",
              "china_stock_mcp.server.get_hist_data"}

\* the invocations the callers make: (*args, **kwargs)
Invocations == {[args |-> <<PyStr("a")>>, kw |-> <<>>]}

\* invocations with pairwise different keys, for the size of the table
KeyedInvocations == {[args |-> <<PyStr(a)>>, kw |-> <<>>] : a \in {"a", "b", "c"}}

\* non-empty DataFrames the origin can return
Frames == {"df1", "df2"}

\* what one execution of func(*args, **kwargs) does
Results == {[kind |-> "raise", val |-> "TimeoutError"],
            [kind |-> "return", val |-> "None"],
            [kind |-> "return", val |-> "empty"]}
           \cup {[kind |-> "return", val |-> d] : d \in Frames}

\* what pa.Table.from_pandas + pq.write_table do: the file is written, or
\* an exception leaves no file, or an exception leaves a partial file
WriteOutcomes == {"ok", "fail", "partial"}

\* columnar serialisation of a DataFrame and its inverse
ToParquet(d) == <<"PAR1", d>>
IsParquet(c) == Len(c) = 2 /\ c[1] = "PAR1"
FromParquet(c) == c[2]
Truncated == <<"PAR">>

VARIABLES
    mem_ttl, disk_ttl, use_memory_cache, use_disk_cache, \* decorator arguments
    now,            \* time.time()
    _memory_cache,  \* per decorated function: cache_key -> {data, timestamp}
    dir_exists,     \* cache_dir exists
    files,          \* cache_dir: cache_key -> {content, mtime, owner}
    last            \* the most recent wrapper call and what it did

cacheVars == <<mem_ttl, disk_ttl, use_memory_cache, use_disk_cache, now,
               _memory_cache, dir_exists, files, last>>

VARIABLES
    primary_source,     \* _fetch_data_with_fallback: the preferred source
    fallback_sources,   \* the caller's list of further sources
    kwargs,             \* the other arguments of the caller
    mutates,            \* fetch_func changes the kwargs dict it receives
    res,                \* the most recent resolution and what it did
    prevKind            \* how the resolution before it ended

fbVars == <<primary_source, fallback_sources, kwargs, mutates, res, prevKind>>

VARIABLES
    pc,         \* two threads in wrapper: the next step of each
    loc,        \* their locals: data, and what the call gave the caller
    fd,         \* the thread holds an open descriptor of the file of the key
    memBy,      \* the thread that assigned the entry of the key last
    diskBy      \* the thread whose write reached the file of the key last

concVars == <<pc, loc, fd, memBy, diskBy>>

VARIABLES
    born,       \* when func returned the data of the memory entry of the key
    lastBorn    \* when func returned the data of the most recent call

ageVars == <<born, lastBorn>>

\* cache_key of every call the callers make (line 64)
CacheKey == [f \in Decorated, inv \in Invocations \cup KeyedInvocations |->
                _generate_cache_key(f, inv.args, inv.kw)]

\* last: the most recent wrapper call.  f, key, at: the call and its time;
\* mem, file: the entry of the key in the table of f and in cache_dir when
\* the call began, memAfter, fileAfter: when it ended (a sequence of at most
\* one element); result: what func did, if it ran; write: what the disk
\* write did, if one was attempted; kind, val: what reached the caller;
\* served: the tier the value came from; trace: the operations on the
\* table, on cache_dir and func, in program order
NoResult == [kind |-> "none", val |-> ""]
NoCall == [f |-> "", key |-> <<>>, at |-> 0, mem |-> <<>>, file |-> <<>>,
           memAfter |-> <<>>, fileAfter |-> <<>>, result |-> NoResult,
           write |-> "none", kind |-> "none", val |-> "", served |-> "",
           trace |-> <<>>]

Lookup(d, k) == IF k \in DOMAIN d THEN <<d[k]>> ELSE <<>>
Range(xs) == {xs[i] : i \in 1..Len(xs)}

\* dict helpers
Del(d, k) == [x \in DOMAIN d \ {k} |-> d[x]]
Put_IfAbsent(d, k, v) == IF k \in DOMAIN d THEN d ELSE d @@ (k :> v)
Put(d, k, v) == [x \in DOMAIN d \cup {k} |-> IF x = k THEN v ELSE d[x]]

MemFresh_Inverted(item, t) == t - item.timestamp > mem_ttl
MemFresh_DiskTtl(item, t) == t - item.timestamp < disk_ttl
MemFresh_Inclusive(item, t) == t - item.timestamp <= mem_ttl
MemFresh_Always(item, t) == TRUE

\* line 70: time.time() - cached_item["timestamp"] < mem_ttl
MemFresh(item, t) == t - item.timestamp < mem_ttl

DiskFresh_Inclusive(file, t) == t - file.mtime <= disk_ttl

\* line 84: (time.time() - file_mod_time) < disk_ttl
DiskFresh(file, t) == t - file.mtime < disk_ttl

ShouldCache_NoEmptyTest(val) == val # "None"

\* line 105: data is not None and not data.empty
ShouldCache(val) == val \notin {"None", "empty"}

MemoryTier_KeepExpired(f, key) ==
    LET mc == _memory_cache[f]
        present == key \in DOMAIN mc
        hit == present /\ MemFresh(mc[key], now)
    IN  IF ~use_memory_cache
        THEN [hit |-> FALSE, val |-> "", mc |-> mc, trace |-> <<>>]
        ELSE IF hit
        THEN [hit |-> TRUE, val |-> mc[key].data, mc |-> mc,
              trace |-> <<"mem.get">>]
        ELSE [hit |-> FALSE, val |-> "", mc |-> mc, trace |-> <<"mem.get">>]

MemoryTier_Touch(f, key) ==
    LET mc == _memory_cache[f]
        present == key \in DOMAIN mc
        hit == present /\ MemFresh(mc[key], now)
    IN  IF ~use_memory_cache
        THEN [hit |-> FALSE, val |-> "", mc |-> mc, trace |-> <<>>]
        ELSE IF hit
        THEN [hit |-> TRUE, val |-> mc[key].data,
              mc |-> Put(mc, key, [data |-> mc[key].data, timestamp |-> now]),
              trace |-> <<"mem.get", "mem.set">>]
        ELSE IF present
        THEN [hit |-> FALSE, val |-> "", mc |-> Del(mc, key),
              trace |-> <<"mem.get", "mem.del">>]
        ELSE [hit |-> FALSE, val |-> "", mc |-> mc, trace |-> <<"mem.get">>]

\* lines 68-75: the memory tier.  hit: the entry is returned; otherwise an
\* expired entry is deleted
MemoryTier(f, key) ==
    LET mc == _memory_cache[f]
        present == key \in DOMAIN mc
        hit == present /\ MemFresh(mc[key], now)
    IN  IF ~use_memory_cache
        THEN [hit |-> FALSE, val |-> "", mc |-> mc, trace |-> <<>>]
        ELSE IF hit
        THEN [hit |-> TRUE, val |-> mc[key].data, mc |-> mc,
              trace |-> <<"mem.get">>]
        ELSE IF present
        THEN [hit |-> FALSE, val |-> "", mc |-> Del(mc, key),
              trace |-> <<"mem.get", "mem.del">>]
        ELSE [hit |-> FALSE, val |-> "", mc |-> mc, trace |-> <<"mem.get">>]

DiskHitEntry_Mtime(df, file_mod_time, t) == [data |-> df, timestamp |-> file_mod_time]

OnReadError_Keep(fs, key) == fs

\* lines 93-95: a failed read deletes the file
OnReadError(fs, key) == Del(fs, key)

\* line 91: the entry a disk hit puts into the table
DiskHitEntry(df, file_mod_time, t) == [data |-> df, timestamp |-> t]

\* lines 78-98: the disk tier, entered after a memory miss
DiskTier(f, key, mc) ==
    LET present == key \in DOMAIN files
        fresh == present /\ DiskFresh(files[key], now)
        readable == fresh /\ IsParquet(files[key].content)
    IN  IF ~use_disk_cache
        THEN [hit |-> FALSE, val |-> "", mc |-> mc, files |-> files,
              dir |-> dir_exists, owner |-> "", trace |-> <<>>]
        ELSE IF ~present
        THEN [hit |-> FALSE, val |-> "", mc |-> mc, files |-> files,
              dir |-> TRUE, owner |-> "", trace |-> <<"mkdir", "exists">>]
        ELSE IF ~fresh
        THEN [hit |-> FALSE, val |-> "", mc |-> mc, files |-> Del(files, key),
              dir |-> TRUE, owner |-> "",
              trace |-> <<"mkdir", "exists", "stat", "remove">>]
        ELSE IF ~readable
        THEN [hit |-> FALSE, val |-> "", mc |-> mc,
              files |-> OnReadError(files, key),
              dir |-> TRUE, owner |-> "",
              trace |-> <<"mkdir", "exists", "stat", "read", "remove">>]
        ELSE LET df == FromParquet(files[key].content)
             IN  [hit |-> TRUE, val |-> df,
                  mc |-> IF use_memory_cache
                         THEN Put(mc, key, DiskHitEntry(df, files[key].mtime, now))
                         ELSE mc,
                  files |-> files, dir |-> TRUE, owner |-> files[key].owner,
                  trace |-> <<"mkdir", "exists", "stat", "read">>
                            \o (IF use_memory_cache THEN <<"mem.set">> ELSE <<>>)]

DiskWrite_Skipped(f, key, data, wr, fs) ==
    IF wr = "partial"
    THEN Put(fs, key, [content |-> Truncated, mtime |-> now, owner |-> f])
    ELSE fs

\* lines 110-118: the disk write; an exception is printed, not raised
DiskWrite(f, key, data, wr, fs) ==
    CASE wr = "ok" ->
            Put(fs, key, [content |-> ToParquet(data), mtime |-> now, owner |-> f])
      [] wr = "partial" ->
            Put(fs, key, [content |-> Truncated, mtime |-> now, owner |-> f])
      [] OTHER -> fs

Propagate_Swallow(r) ==
    IF r.kind = "raise" THEN [kind |-> "return", val |-> "None"] ELSE r

\* lines 102 and 122: the call of func and what reaches the caller
Propagate(r) == r

Origin_WriteRaises(f, key, r, wr, mc, fs, dir) ==
    IF r.kind = "raise"
    THEN [out |-> Propagate(r), mc |-> mc, files |-> fs, dir |-> dir,
          trace |-> <<"func">>]
    ELSE IF ShouldCache(r.val)
    THEN [out |-> IF use_disk_cache /\ wr # "ok"
                  THEN [kind |-> "raise", val |-> "OSError"]
                  ELSE Propagate(r),
          mc |-> IF use_memory_cache
                 THEN Put(mc, key, [data |-> r.val, timestamp |-> now])
                 ELSE mc,
          files |-> IF use_disk_cache THEN DiskWrite(f, key, r.val, wr, fs) ELSE fs,
          dir |-> IF use_disk_cache THEN TRUE ELSE dir,
          trace |-> <<"func">>
                    \o (IF use_memory_cache THEN <<"mem.set">> ELSE <<>>)
                    \o (IF use_disk_cache THEN <<"mkdir", "write">> ELSE <<>>)]
    ELSE [out |-> Propagate(r), mc |-> mc, files |-> fs, dir |-> dir,
          trace |-> <<"func">>]

Origin_Unguarded(f, key, r, wr, mc, fs, dir) ==
    IF r.kind = "raise"
    THEN [out |-> Propagate(r), mc |-> mc, files |-> fs, dir |-> dir,
          trace |-> <<"func">>]
    ELSE IF ShouldCache(r.val)
    THEN [out |-> Propagate(r),
          mc |-> Put(mc, key, [data |-> r.val, timestamp |-> now]),
          files |-> IF use_disk_cache THEN DiskWrite(f, key, r.val, wr, fs) ELSE fs,
          dir |-> TRUE,
          trace |-> <<"func", "mem.set", "mkdir">>
                    \o (IF use_disk_cache THEN <<"write">> ELSE <<>>)]
    ELSE [out |-> Propagate(r), mc |-> mc, files |-> fs, dir |-> dir,
          trace |-> <<"func">>]

\* lines 100-122: the origin, entered after both tiers missed
Origin(f, key, r, wr, mc, fs, dir) ==
    IF r.kind = "raise"
    THEN [out |-> Propagate(r), mc |-> mc, files |-> fs, dir |-> dir,
          trace |-> <<"func">>]
    ELSE IF ShouldCache(r.val)
    THEN [out |-> Propagate(r),
          mc |-> IF use_memory_cache
                 THEN Put(mc, key, [data |-> r.val, timestamp |-> now])
                 ELSE mc,
          files |-> IF use_disk_cache THEN DiskWrite(f, key, r.val, wr, fs) ELSE fs,
          dir |-> IF use_disk_cache THEN TRUE ELSE dir,
          trace |-> <<"func">>
                    \o (IF use_memory_cache THEN <<"mem.set">> ELSE <<>>)
                    \o (IF use_disk_cache THEN <<"mkdir", "write">> ELSE <<>>)]
    ELSE [out |-> Propagate(r), mc |-> mc, files |-> fs, dir |-> dir,
          trace |-> <<"func">>]

\* the disk write is attempted only for a result that is cached on disk
WritesFor(r) ==
    IF use_disk_cache /\ r.kind = "return" /\ ShouldCache(r.val)
    THEN WriteOutcomes ELSE {"ok"}

\* lines 63-122: one call wrapper(*args, **kwargs) of decorated function f.
\* When both tiers miss, func is called: r is what it does, wr what the
\* disk write does
wrapper(f, inv) ==
    LET key == CacheKey[f, inv]
        call == [f |-> f, key |-> key, at |-> now,
                 mem |-> Lookup(_memory_cache[f], key),
                 file |-> Lookup(files, key)]
    IN  \E m \in {MemoryTier(f, key)} :
        IF m.hit
        THEN /\ last' = call @@
                        [memAfter |-> Lookup(m.mc, key),
                         fileAfter |-> Lookup(files, key),
                         result |-> NoResult, write |-> "none",
                         kind |-> "return", val |-> m.val,
                         served |-> "memory", trace |-> m.trace]
             /\ UNCHANGED <<_memory_cache, dir_exists, files>>
        ELSE \E d \in {DiskTier(f, key, m.mc)} :
                 IF d.hit
                 THEN /\ last' = call @@
                                 [memAfter |-> Lookup(d.mc, key),
                                  fileAfter |-> Lookup(d.files, key),
                                  result |-> NoResult, write |-> "none",
                                  kind |-> "return", val |-> d.val,
                                  served |-> "disk",
                                  trace |-> m.trace \o d.trace]
                      /\ _memory_cache' = [_memory_cache EXCEPT ![f] = d.mc]
                      /\ dir_exists' = d.dir
                      /\ files' = d.files
                 ELSE \E r \in Results : \E wr \in WritesFor(r) :
                        \E o \in {Origin(f, key, r, wr, d.mc, d.files, d.dir)} :
                            /\ last' = call @@
                                       [memAfter |-> Lookup(o.mc, key),
                                        fileAfter |-> Lookup(o.files, key),
                                        result |-> r,
                                        write |-> IF "write" \in Range(o.trace)
                                                  THEN wr ELSE "none",
                                        kind |-> o.out.kind, val |-> o.out.val,
                                        served |-> "origin",
                                        trace |-> m.trace \o d.trace \o o.trace]
                            /\ _memory_cache' = [_memory_cache EXCEPT ![f] = o.mc]
                            /\ dir_exists' = o.dir
                            /\ files' = o.files

Call(f, inv) ==
    /\ wrapper(f, inv)
    /\ UNCHANGED <<mem_ttl, disk_ttl, use_memory_cache, use_disk_cache, now>>

\* the wall clock advances
Tick ==
    /\ now < MaxTime
    /\ now' = now + 1
    /\ UNCHANGED <<mem_ttl, disk_ttl, use_memory_cache, use_disk_cache,
                   _memory_cache, dir_exists, files, last>>

\* the process restarts: every decorator starts with an empty table, the
\* cache directory stays
Restart ==
    /\ \E f \in Decorated : DOMAIN _memory_cache[f] # {}
    /\ _memory_cache' = [f \in Decorated |-> <<>>]
    /\ UNCHANGED <<mem_ttl, disk_ttl, use_memory_cache, use_disk_cache, now,
                   dir_exists, files, last>>

\* a cache file is damaged: truncated now, or its bytes rot in place
Corrupt(key, touch) ==
    /\ key \in DOMAIN files
    /\ files[key].content # Truncated
    /\ files' = [files EXCEPT ![key] =
                    [content |-> Truncated,
                     mtime |-> IF touch THEN now ELSE files[key].mtime,
                     owner |-> files[key].owner]]
    /\ UNCHANGED <<mem_ttl, disk_ttl, use_memory_cache, use_disk_cache, now,
                   _memory_cache, dir_exists, last>>

---------------------------------------------------------------------------
(* Two threads of one process inside wrapper for the same key, one step of *)
(* the table or of the file system at a time (lines 63-122).               *)

Threads == {1, 2}
ConcFunc == "china_stock_mcp.server.get_hist_data"
ConcKey == CacheKey[ConcFunc, [args |-> <<PyStr("a")>>, kw |-> <<>>]]

\* what func does when thread t calls it; the two threads get different rows
ThreadResults(t) ==
    {[kind |-> "raise", val |-> "TimeoutError"],
     [kind |-> "return", val |-> "empty"],
     [kind |-> "return", val |-> IF t = 1 THEN "df1" ELSE "df2"]}

NoOutcome == [kind |-> "none", val |-> ""]
NoLocals == [data |-> "", out |-> NoOutcome, cold |-> FALSE]

\* the step after the memory tier (line 78) and after the disk tier (line 102)
AfterMemory == IF use_disk_cache THEN "exists" ELSE "func"

\* thread t leaves wrapper: return value or exception
Finish(t, kind, val, data, cold) ==
    /\ pc' = [pc EXCEPT ![t] = "idle"]
    /\ loc' = [loc EXCEPT ![t] = [data |-> data, cold |-> cold,
                                  out |-> [kind |-> kind, val |-> val]]]

Goto(t, step) == pc' = [pc EXCEPT ![t] = step]

\* line 63: wrapper is entered
Begin(t) ==
    /\ pc[t] = "idle"
    /\ Goto(t, IF use_memory_cache THEN "mem" ELSE AfterMemory)
    /\ loc' = [loc EXCEPT ![t] = [data |-> "", out |-> NoOutcome, cold |-> TRUE]]
    /\ UNCHANGED <<_memory_cache, files, dir_exists, fd, memBy, diskBy>>

\* lines 69-72: _memory_cache.get and the age test
MemGet(t) ==
    /\ pc[t] = "mem"
    /\ LET mc == _memory_cache[ConcFunc]
       IN  IF ConcKey \in DOMAIN mc /\ MemFresh(mc[ConcKey], now)
           THEN Finish(t, "return", mc[ConcKey].data, mc[ConcKey].data, FALSE)
           ELSE IF ConcKey \in DOMAIN mc
           THEN /\ Goto(t, "del")
                /\ loc' = [loc EXCEPT ![t].cold = FALSE]
           ELSE /\ Goto(t, AfterMemory)
                /\ UNCHANGED loc
    /\ UNCHANGED <<_memory_cache, files, dir_exists, fd, memBy, diskBy>>

\* line 75: del _memory_cache[cache_key]; KeyError when the other thread
\* deleted the entry first
MemDel(t) ==
    /\ pc[t] = "del"
    /\ IF ConcKey \in DOMAIN _memory_cache[ConcFunc]
       THEN /\ _memory_cache' = [_memory_cache EXCEPT ![ConcFunc] = Del(@, ConcKey)]
            /\ Goto(t, AfterMemory)
            /\ UNCHANGED loc
       ELSE /\ Finish(t, "raise", "KeyError", "", FALSE)
            /\ UNCHANGED _memory_cache
    /\ UNCHANGED <<files, dir_exists, fd, memBy, diskBy>>

\* lines 79-82: mkdir and cache_file.exists()
Exists(t) ==
    /\ pc[t] = "exists"
    /\ dir_exists' = TRUE
    /\ IF ConcKey \in DOMAIN files
       THEN /\ Goto(t, "stat")
            /\ loc' = [loc EXCEPT ![t].cold = FALSE]
       ELSE /\ Goto(t, "func")
            /\ UNCHANGED loc
    /\ UNCHANGED <<_memory_cache, files, fd, memBy, diskBy>>

\* lines 83-84: cache_file.stat() and the age test; FileNotFoundError when
\* the file is gone
Stat(t) ==
    /\ pc[t] = "stat"
    /\ IF ConcKey \notin DOMAIN files
       THEN Finish(t, "raise", "FileNotFoundError", "", FALSE)
       ELSE /\ Goto(t, IF DiskFresh(files[ConcKey], now) THEN "read" ELSE "expired")
            /\ UNCHANGED loc
    /\ UNCHANGED <<_memory_cache, files, dir_exists, fd, memBy, diskBy>>

\* lines 85-94: pq.read_table; any exception leads to line 95
Read(t) ==
    /\ pc[t] = "read"
    /\ IF ConcKey \in DOMAIN files /\ IsParquet(files[ConcKey].content)
       THEN LET df == FromParquet(files[ConcKey].content)
            IN  IF use_memory_cache
                THEN /\ Goto(t, "hit")
                     /\ loc' = [loc EXCEPT ![t].data = df]
                ELSE Finish(t, "return", df, df, FALSE)
       ELSE /\ Goto(t, "corrupt")
            /\ UNCHANGED loc
    /\ UNCHANGED <<_memory_cache, files, dir_exists, fd, memBy, diskBy>>

\* line 91: the entry of a disk hit, and the return of line 92
HitSet(t) ==
    /\ pc[t] = "hit"
    /\ _memory_cache' = [_memory_cache EXCEPT ![ConcFunc] =
                            Put(@, ConcKey, DiskHitEntry(loc[t].data, now, now))]
    /\ memBy' = t
    /\ Finish(t, "return", loc[t].data, loc[t].data, FALSE)
    /\ UNCHANGED <<files, dir_exists, fd, diskBy>>

\* lines 95 and 98: os.remove(cache_file); FileNotFoundError when the file
\* is gone.  A thread that has the removed file open keeps a descriptor of
\* a file that has no name any more
Remove(t) ==
    /\ pc[t] \in {"expired", "corrupt"}
    /\ IF ConcKey \in DOMAIN files
       THEN /\ files' = Del(files, ConcKey)
            /\ fd' = [u \in Threads |-> FALSE]
            /\ Goto(t, "func")
            /\ UNCHANGED loc
       ELSE /\ Finish(t, "raise", "FileNotFoundError", "", FALSE)
            /\ UNCHANGED <<files, fd>>
    /\ UNCHANGED <<_memory_cache, dir_exists, memBy, diskBy>>

\* lines 102-105: func and the test of its result
Func(t) ==
    /\ pc[t] = "func"
    /\ \E r \in ThreadResults(t) :
          IF r.kind = "raise" \/ ~ShouldCache(r.val)
          THEN Finish(t, r.kind, r.val, "", loc[t].cold)
          ELSE IF use_memory_cache \/ use_disk_cache
          THEN /\ Goto(t, IF use_memory_cache THEN "set" ELSE "open")
               /\ loc' = [loc EXCEPT ![t].data = r.val]
          ELSE Finish(t, "return", r.val, r.val, loc[t].cold)
    /\ UNCHANGED <<_memory_cache, files, dir_exists, fd, memBy, diskBy>>

\* line 107: _memory_cache[cache_key] = {...}
MemSet(t) ==
    /\ pc[t] = "set"
    /\ _memory_cache' = [_memory_cache EXCEPT ![ConcFunc] =
                            Put(@, ConcKey, [data |-> loc[t].data,
                                             timestamp |-> now])]
    /\ memBy' = t
    /\ IF use_disk_cache
       THEN Goto(t, "open") /\ UNCHANGED loc
       ELSE Finish(t, "return", loc[t].data, loc[t].data, loc[t].cold)
    /\ UNCHANGED <<files, dir_exists, fd, diskBy>>

\* lines 111-115: mkdir, and pq.write_table opens the file, which creates
\* or empties it
Open(t) ==
    /\ pc[t] = "open"
    /\ dir_exists' = TRUE
    /\ files' = Put(files, ConcKey, [content |-> Truncated, mtime |-> now,
                                     owner |-> ConcFunc])
    /\ fd' = [fd EXCEPT ![t] = TRUE]
    /\ Goto(t, "write")
    /\ UNCHANGED <<_memory_cache, loc, memBy, diskBy>>

\* what the file holds after thread t wrote data through its descriptor:
\* its bytes, or, when the other thread wrote through its own descriptor
\* since t opened the file, possibly a mixture of both
Written(data, before) ==
    IF before = Truncated THEN {ToParquet(data)}
    ELSE {ToParquet(data), Truncated}

\* lines 115 and 122: pq.write_table writes and closes, wrapper returns.
\* The bytes of a file that was removed meanwhile are lost
Write(t) ==
    /\ pc[t] = "write"
    /\ IF fd[t] /\ ConcKey \in DOMAIN files
       THEN /\ \E c \in Written(loc[t].data, files[ConcKey].content) :
                  files' = Put(files, ConcKey, [content |-> c, mtime |-> now,
                                                owner |-> ConcFunc])
            /\ diskBy' = t
       ELSE UNCHANGED <<files, diskBy>>
    /\ fd' = [fd EXCEPT ![t] = FALSE]
    /\ Finish(t, "return", loc[t].data, loc[t].data, loc[t].cold)
    /\ UNCHANGED <<_memory_cache, dir_exists, memBy>>


ConcIdle ==
    /\ pc = [t \in Threads |-> "idle"]
    /\ loc = [t \in Threads |-> NoLocals]
    /\ fd = [t \in Threads |-> FALSE]
    /\ memBy = 0
    /\ diskBy = 0

---------------------------------------------------------------------------
(* _generate_cache_key applied to an invocation and to a variation of it.  *)

VARIABLES
    inv1, key1,     \* an invocation (f, args, kwargs) and its key
    inv2, key2,     \* a second invocation derived from the first, and its key
    rel             \* how inv2 was derived from inv1

keyVars == <<inv1, key1, inv2, key2, rel>>
vars == <<cacheVars, fbVars, concVars, ageVars, keyVars>>

NoKey == <<>>
NoInv == [f |-> "", args |-> <<>>, kw |-> <<>>]

ArgTuples == UNION {[1..n -> Values] : n \in 0..MaxArgs}
KwValues == {PyStr("a"), PyObj("a")}
KwDicts == {<<>>}
           \cup {<<(<<n, v>>)>> : n \in KwNames, v \in KwValues}
           \cup {<<(<<n, v>>), (<<m, w>>)>> :
                    <<n, v, m, w>> \in {q \in KwNames \X KwValues \X KwNames \X KwValues :
                                            q[1] # q[3]}}
KeyInvocations == [f : Funcs, args : ArgTuples, kw : KwDicts]

KeyOf(i) == _generate_cache_key(i.f, i.args, i.kw)

Reverse(xs) == [i \in 1..Len(xs) |-> xs[Len(xs) + 1 - i]]
SwapAt(xs, i, j) == [xs EXCEPT ![i] = xs[j], ![j] = xs[i]]

Generate ==
    /\ inv1 # NoInv /\ key1 = NoKey
    /\ key1' = KeyOf(inv1)
    /\ UNCHANGED <<inv1, inv2, key2, rel, cacheVars, fbVars, concVars, ageVars>>

Derive(i, how) ==
    /\ key1 # NoKey
    /\ inv2' = i
    /\ key2' = KeyOf(i)
    /\ rel' = how
    /\ UNCHANGED <<inv1, key1, cacheVars, fbVars, concVars, ageVars>>

\* the same call again
Again == Derive(inv1, "same")

\* the same keyword arguments, supplied in another order
Reorder ==
    /\ Len(inv1.kw) > 1
    /\ Derive([inv1 EXCEPT !.kw = Reverse(inv1.kw)], "reorder")

\* two positional arguments exchanged
Swap ==
    \E i, j \in 1..Len(inv1.args) :
        /\ i < j
        /\ inv1.args[i] # inv1.args[j]
        /\ Derive([inv1 EXCEPT !.args = SwapAt(inv1.args, i, j)], "swap")

\* one positional argument replaced by another value
ReplaceArg ==
    \E i \in 1..Len(inv1.args), v \in Values :
        /\ v # inv1.args[i]
        /\ Derive([inv1 EXCEPT !.args[i] = v], "replace")

\* the value of one keyword argument replaced by another value
ReplaceKwarg ==
    \E i \in 1..Len(inv1.kw), v \in KwValues :
        /\ v # inv1.kw[i][2]
        /\ Derive([inv1 EXCEPT !.kw[i] = <<inv1.kw[i][1], v>>], "replace")

\* the same arguments, another decorated function
OtherFunc ==
    \E g \in Funcs :
        /\ g # inv1.f
        /\ Derive([inv1 EXCEPT !.f = g], "func")

---------------------------------------------------------------------------
(* _fetch_data_with_fallback of china_stock_mcp/server.py.                 *)

\* longest fallback_sources list
MaxFallbacks == 3

Sources == {"eastmoney", "eastmoney_direct", "sina"}
\* primary_source is None: no source routing
NoSource == "None"

\* what one call of fetch_func does: it raises, or returns None, an empty
\* DataFrame or rows
FetchOutcomes == {"raise", "None", "empty", "rows"}
ErrorText == "ConnectionError"

FallbackLists == UNION {[1..n -> Sources] : n \in 0..MaxFallbacks}
KwargsSets == {[symbol |-> "600000"]}

\* the value fetch_func hands back for an outcome
FetchValue(source, outcome) ==
    CASE outcome = "rows" -> <<"rows", source>>
      [] outcome = "raise" -> <<ErrorText>>
      [] OTHER -> <<outcome>>

\* lines 41-46: duplicates removed, first occurrence kept
RECURSIVE Unique(_, _)
Unique(xs, seen) ==
    IF xs = <<>> THEN <<>>
    ELSE IF Head(xs) \in seen THEN Unique(Tail(xs), seen)
    ELSE <<Head(xs)>> \o Unique(Tail(xs), seen \cup {Head(xs)})

unique_data_source_priority_NoDedupe(primary, fallbacks) ==
    <<primary>> \o fallbacks

\* lines 39-46
unique_data_source_priority(primary, fallbacks) ==
    Unique(<<primary>> \o fallbacks, {})

\* what fetch_func does to the dict it received as **kwargs
CalleeDict(kw) == IF mutates THEN [kw EXCEPT !.symbol = "changed"] ELSE kw

AfterCall_Aliased(callerKw, calleeKw) == calleeKw

\* line 55: ** builds a new dict for the callee, the caller's dict is not
\* the one fetch_func changes
AfterCall(callerKw, calleeKw) == callerKw

\* lines 61 and 63: one entry of errors
ErrorEntry(source, outcome) ==
    IF outcome = "raise" THEN <<"failed", source, ErrorText>>
    ELSE <<"empty", source>>

IsValid_NotNone(outcome) == outcome \notin {"None", "raise"}

\* line 56: temp_df is not None and not temp_df.empty
IsValid(outcome) == outcome = "rows"

StopsAt_Never(outcome) == FALSE

\* line 59: break
StopsAt(outcome) == IsValid(outcome)

\* lines 51-63: the loop from candidate i on.  outs[i] is what the i-th
\* call of fetch_func does; calls is the log of the calls made
RECURSIVE Loop(_, _, _, _, _, _, _)
Loop(cands, outs, i, kw, df, errors, calls) ==
    IF i > Len(cands)
    THEN [df |-> df, errors |-> errors, calls |-> calls]
    ELSE LET o == outs[i]
             call == [source |-> cands[i], kwargs |-> kw, outcome |-> o]
             kw2 == AfterCall(kw, CalleeDict(kw))
         IN  IF o # "raise" /\ IsValid(o)
             THEN IF StopsAt(o)
                  THEN [df |-> FetchValue(cands[i], o), errors |-> errors,
                        calls |-> Append(calls, call)]
                  ELSE Loop(cands, outs, i + 1, kw2, FetchValue(cands[i], o),
                            errors, Append(calls, call))
             ELSE Loop(cands, outs, i + 1, kw2, df,
                       Append(errors, ErrorEntry(cands[i], o)),
                       Append(calls, call))

\* line 67: '; '.join(errors)
RECURSIVE JoinErrors(_)
JoinErrors(errors) ==
    IF errors = <<>> THEN <<>>
    ELSE IF Len(errors) = 1 THEN <<Head(errors)>>
    ELSE <<Head(errors), <<"; ">>>> \o JoinErrors(Tail(errors))

\* lines 65-68: the text of the RuntimeError
ErrorMessage(errors) == <<"no source returned data: ">> \o JoinErrors(errors)

Direct_Checked(outcome, kw) ==
    [cands |-> <<>>,
     calls |-> <<[source |-> NoSource, kwargs |-> kw, outcome |-> outcome]>>,
     errors |-> IF outcome = "rows" THEN <<>>
                ELSE <<ErrorEntry(NoSource, outcome)>>,
     kind |-> IF outcome = "rows" THEN "return" ELSE "raise",
     val |-> IF outcome = "rows" THEN FetchValue(NoSource, outcome)
             ELSE <<"RuntimeError">>,
     message |-> IF outcome = "rows" THEN <<>>
                 ELSE ErrorMessage(<<ErrorEntry(NoSource, outcome)>>)]

\* lines 37-38: no routing, the result of fetch_func as it is
Direct(outcome, kw) ==
    [cands |-> <<>>,
     calls |-> <<[source |-> NoSource, kwargs |-> kw, outcome |-> outcome]>>,
     errors |-> <<>>,
     kind |-> IF outcome = "raise" THEN "raise" ELSE "return",
     val |-> FetchValue(NoSource, outcome),
     message |-> <<>>]

NewErrors_Kept == res.errors

\* line 49: errors = [], a list of this call
NewErrors == <<>>

\* lines 14-70
_fetch_data_with_fallback(primary, fallbacks, kw, outs) ==
    IF primary = NoSource
    THEN Direct(outs[1], kw)
    ELSE LET cands == unique_data_source_priority(primary, fallbacks)
             l == Loop(cands, outs, 1, kw, <<>>, NewErrors, <<>>)
         IN  IF l.df = <<>>
             THEN [cands |-> cands, calls |-> l.calls, errors |-> l.errors,
                   kind |-> "raise", val |-> <<"RuntimeError">>,
                   message |-> ErrorMessage(l.errors)]
             ELSE [cands |-> cands, calls |-> l.calls, errors |-> l.errors,
                   kind |-> "return", val |-> l.df, message |-> <<>>]

NoResolution == [cands |-> <<>>, calls |-> <<>>, errors |-> <<>>,
                 kind |-> "none", val |-> <<>>, message |-> <<>>]

\* the most calls of fetch_func one resolution can make
MaxCalls(primary, fallbacks) ==
    IF primary = NoSource THEN 1
    ELSE Len(unique_data_source_priority(primary, fallbacks))

\* one resolution; every call of fetch_func may do any of FetchOutcomes
Resolve ==
    /\ \E outs \in [1..MaxCalls(primary_source, fallback_sources)
                        -> FetchOutcomes] :
          res' = _fetch_data_with_fallback(primary_source, fallback_sources,
                                           kwargs, outs)
    /\ prevKind' = res.kind
    /\ UNCHANGED <<primary_source, fallback_sources, kwargs, mutates,
                   cacheVars, keyVars, concVars, ageVars>>

FbIdle ==
    /\ primary_source = NoSource
    /\ fallback_sources = <<>>
    /\ kwargs = [symbol |-> "600000"]
    /\ mutates = FALSE
    /\ res = NoResolution
    /\ prevKind = "none"

---------------------------------------------------------------------------
(* The age of the data a call returns: a call of wrapper together with the *)
(* time at which func returned the data.                                   *)

AgeIdle ==
    /\ born = [f \in Decorated |-> 0]
    /\ lastBorn = 0

\* the data of a file was returned by func when the file was written
\* (lines 102-115); a memory entry made by a disk hit holds the data of the
\* file (lines 86-91)
CallAged(f, inv) ==
    /\ Call(f, inv)
    /\ lastBorn' = CASE last'.served = "memory" -> born[f]
                     [] last'.served = "disk" -> last'.file[1].mtime
                     [] OTHER -> now
    /\ born' = [born EXCEPT ![f] =
                   IF "mem.set" \in Range(last'.trace) THEN lastBorn'
                   ELSE IF last'.memAfter = <<>> THEN 0
                   ELSE @]

\* the process restarts
RestartAged ==
    /\ Restart
    /\ born' = [f \in Decorated |-> 0]
    /\ UNCHANGED lastBorn

---------------------------------------------------------------------------
(* Specifications *)

CacheIdle ==
    /\ mem_ttl = 1 /\ disk_ttl = 1
    /\ use_memory_cache = TRUE /\ use_disk_cache = TRUE
    /\ now = 0
    /\ _memory_cache = [f \in Decorated |-> <<>>]
    /\ dir_exists = FALSE
    /\ files = <<>>
    /\ last = NoCall

KeyIdle ==
    /\ inv1 = NoInv /\ key1 = NoKey
    /\ inv2 = NoInv /\ key2 = NoKey
    /\ rel = "none"

Init ==
    /\ mem_ttl \in 1..MaxTTL
    /\ disk_ttl \in 1..MaxTTL
    /\ use_memory_cache \in BOOLEAN
    /\ use_disk_cache \in BOOLEAN
    /\ now = 0
    /\ _memory_cache = [f \in Decorated |-> <<>>]
    /\ dir_exists = FALSE
    /\ files = <<>>
    /\ last = NoCall
    /\ KeyIdle
    /\ FbIdle
    /\ ConcIdle
    /\ AgeIdle

Next ==
    \/ \E f \in Decorated, inv \in Invocations :
          Call(f, inv) /\ UNCHANGED <<keyVars, fbVars, concVars, ageVars>>
    \/ Tick /\ UNCHANGED <<keyVars, fbVars, concVars, ageVars>>
    \/ Restart /\ UNCHANGED <<keyVars, fbVars, concVars, ageVars>>
    \/ \E key \in DOMAIN files, touch \in BOOLEAN :
          Corrupt(key, touch) /\ UNCHANGED <<keyVars, fbVars, concVars, ageVars>>

Spec == Init /\ [][Next]_vars

InitKey ==
    /\ CacheIdle
    /\ FbIdle
    /\ ConcIdle
    /\ AgeIdle
    /\ inv1 \in KeyInvocations
    /\ key1 = NoKey
    /\ inv2 = NoInv /\ key2 = NoKey
    /\ rel = "none"

NextKey ==
    \/ Generate
    \/ Again
    \/ Reorder
    \/ Swap
    \/ ReplaceArg
    \/ ReplaceKwarg
    \/ OtherFunc

SpecKey == InitKey /\ [][NextKey]_vars

\* one decorated function with the memory tier only, called with several
\* invocations
InitMem ==
    /\ mem_ttl \in 1..MaxTTL
    /\ disk_ttl = 1
    /\ use_memory_cache = TRUE
    /\ use_disk_cache = FALSE
    /\ now = 0
    /\ _memory_cache = [f \in Decorated |-> <<>>]
    /\ dir_exists = FALSE
    /\ files = <<>>
    /\ last = NoCall
    /\ KeyIdle
    /\ FbIdle
    /\ ConcIdle
    /\ AgeIdle

NextMem ==
    \/ \E inv \in KeyedInvocations :
          Call("china_stock_mcp.server.get_hist_data", inv)
          /\ UNCHANGED <<keyVars, fbVars, concVars, ageVars>>
    \/ Tick /\ UNCHANGED <<keyVars, fbVars, concVars, ageVars>>

SpecMem == InitMem /\ [][NextMem]_vars

\* what no step of a thread changes
ThreadFrame ==
    UNCHANGED <<mem_ttl, disk_ttl, use_memory_cache, use_disk_cache, now,
                last, keyVars, fbVars, ageVars>>

InitConc ==
    /\ mem_ttl \in 1..MaxTTL
    /\ disk_ttl \in 1..MaxTTL
    /\ use_memory_cache \in BOOLEAN
    /\ use_disk_cache \in BOOLEAN
    /\ now = 0
    /\ _memory_cache = [f \in Decorated |-> <<>>]
    /\ dir_exists = FALSE
    /\ files = <<>>
    /\ last = NoCall
    /\ KeyIdle
    /\ FbIdle
    /\ ConcIdle
    /\ AgeIdle

NextConc ==
    \/ \E t \in Threads : Begin(t) /\ ThreadFrame
    \/ \E t \in Threads : MemGet(t) /\ ThreadFrame
    \/ \E t \in Threads : MemDel(t) /\ ThreadFrame
    \/ \E t \in Threads : Exists(t) /\ ThreadFrame
    \/ \E t \in Threads : Stat(t) /\ ThreadFrame
    \/ \E t \in Threads : Read(t) /\ ThreadFrame
    \/ \E t \in Threads : HitSet(t) /\ ThreadFrame
    \/ \E t \in Threads : Remove(t) /\ ThreadFrame
    \/ \E t \in Threads : Func(t) /\ ThreadFrame
    \/ \E t \in Threads : MemSet(t) /\ ThreadFrame
    \/ \E t \in Threads : Open(t) /\ ThreadFrame
    \/ \E t \in Threads : Write(t) /\ ThreadFrame
    \/ Tick /\ UNCHANGED <<keyVars, fbVars, concVars, ageVars>>

SpecConc == InitConc /\ [][NextConc]_vars

InitAge ==
    /\ mem_ttl \in 1..MaxTTL
    /\ disk_ttl \in 1..MaxTTL
    /\ use_memory_cache \in BOOLEAN
    /\ use_disk_cache \in BOOLEAN
    /\ now = 0
    /\ _memory_cache = [f \in Decorated |-> <<>>]
    /\ dir_exists = FALSE
    /\ files = <<>>
    /\ last = NoCall
    /\ KeyIdle
    /\ FbIdle
    /\ ConcIdle
    /\ AgeIdle

NextAge ==
    \/ \E f \in Decorated, inv \in Invocations :
          CallAged(f, inv) /\ UNCHANGED <<keyVars, fbVars, concVars>>
    \/ Tick /\ UNCHANGED <<keyVars, fbVars, concVars, ageVars>>
    \/ RestartAged /\ UNCHANGED <<keyVars, fbVars, concVars>>

SpecAge == InitAge /\ [][NextAge]_vars

InitFb ==
    /\ CacheIdle
    /\ KeyIdle
    /\ primary_source \in Sources \cup {NoSource}
    /\ fallback_sources \in FallbackLists
    /\ kwargs \in KwargsSets
    /\ mutates \in BOOLEAN
    /\ res = NoResolution
    /\ prevKind = "none"
    /\ ConcIdle
    /\ AgeIdle

NextFb == Resolve

SpecFb == InitFb /\ [][NextFb]_vars

---------------------------------------------------------------------------
(* Properties of the wrapper, stated on the most recent call.              *)

Called == last.kind # "none"
BothTiers == use_memory_cache /\ use_disk_cache

\* the table held an entry of the key on entry, younger than mem_ttl
MemFreshAtEntry ==
    /\ use_memory_cache
    /\ last.mem # <<>>
    /\ last.at - last.mem[1].timestamp < mem_ttl

\* cache_dir held a file of the key on entry
FileAtEntry == last.file # <<>>
FileAgeAtEntry == last.at - last.file[1].mtime

\* how often func ran in the call
FuncCalls == Cardinality({i \in 1..Len(last.trace) : last.trace[i] = "func"})

\* the position of the first occurrence of op in the trace, 0 if none
First(op) ==
    IF op \in Range(last.trace)
    THEN CHOOSE i \in 1..Len(last.trace) :
            /\ last.trace[i] = op
            /\ \A j \in 1..(i - 1) : last.trace[j] # op
    ELSE 0

Stores == {"mem.set", "write"}
IsFrame(val) == val \notin {"None", "empty"}

\* C1: with the memory tier enabled, a call that finds an entry of its key
\* younger than mem_ttl returns the data of that entry and does not run the
\* wrapped function
C1_MemoryHit ==
    (Called /\ MemFreshAtEntry) =>
        /\ last.kind = "return"
        /\ last.val = last.mem[1].data
        /\ IsFrame(last.val)
        /\ FuncCalls = 0

C1_Witness ==
    /\ Called /\ MemFreshAtEntry
    /\ last.served = "memory"
    /\ last.at > last.mem[1].timestamp

\* C2: with both tiers enabled, a call that finds no fresh memory entry and
\* a readable file younger than disk_ttl returns the persisted data, puts it
\* into the table stamped with the current time and does not run the wrapped
\* function
C2_DiskHit ==
    (/\ Called /\ BothTiers /\ ~MemFreshAtEntry
     /\ FileAtEntry /\ FileAgeAtEntry < disk_ttl
     /\ IsParquet(last.file[1].content)) =>
        /\ last.kind = "return"
        /\ last.val = FromParquet(last.file[1].content)
        /\ last.memAfter = <<[data |-> last.val, timestamp |-> last.at]>>
        /\ FuncCalls = 0

C2_Witness ==
    /\ Called /\ BothTiers /\ ~MemFreshAtEntry
    /\ FileAtEntry /\ FileAgeAtEntry < disk_ttl
    /\ IsParquet(last.file[1].content)
    /\ last.served = "disk"
    /\ last.mem # <<>>
    /\ FileAgeAtEntry > 0

\* what a call that refetches after the expiry of the file leaves behind
Refetched ==
    /\ "remove" \in Range(last.trace)
    /\ FuncCalls = 1
    /\ (last.kind = "return" /\ IsFrame(last.val)) =>
          /\ last.memAfter = <<[data |-> last.val, timestamp |-> last.at]>>
          /\ last.fileAfter = <<[content |-> ToParquet(last.val),
                                 mtime |-> last.at, owner |-> last.f]>>

\* C3 as stated: with both tiers enabled, whatever the two TTLs, a call that
\* finds a file of age >= disk_ttl removes it, runs the wrapped function
\* exactly once and leaves a non-empty result in both tiers (calls whose
\* disk write fails are left out)
C3_Original ==
    (/\ Called /\ BothTiers /\ FileAtEntry /\ FileAgeAtEntry >= disk_ttl
     /\ last.write \notin {"fail", "partial"}) =>
        Refetched

\* C3 amended: with both tiers enabled, a call that finds no fresh memory
\* entry and a file of age >= disk_ttl removes the file and runs the wrapped
\* function exactly once; a non-empty result is left in the memory tier, and
\* in the disk tier when the disk write succeeds (a failed write leaves no
\* file or a partial one, never the expired file)
C3_DiskExpiry ==
    (/\ Called /\ BothTiers /\ ~MemFreshAtEntry
     /\ FileAtEntry /\ FileAgeAtEntry >= disk_ttl) =>
        /\ "remove" \in Range(last.trace)
        /\ First("remove") < First("func")
        /\ FuncCalls = 1
        /\ last.fileAfter # last.file
        /\ (last.kind = "return" /\ IsFrame(last.val)) =>
              /\ last.memAfter = <<[data |-> last.val, timestamp |-> last.at]>>
              /\ last.write = "ok" =>
                    last.fileAfter = <<[content |-> ToParquet(last.val),
                                        mtime |-> last.at, owner |-> last.f]>>
              /\ last.write # "ok" =>
                    \/ last.fileAfter = <<>>
                    \/ ~IsParquet(last.fileAfter[1].content)

C3_Witness ==
    /\ Called /\ BothTiers /\ ~MemFreshAtEntry
    /\ FileAtEntry /\ FileAgeAtEntry >= disk_ttl
    /\ last.kind = "return" /\ IsFrame(last.val)
    /\ last.write = "ok"
    /\ IsParquet(last.file[1].content)
    /\ FromParquet(last.file[1].content) # last.val

\* the wrapped function ran and returned None or an empty DataFrame
ReturnedAbsence ==
    /\ last.result.kind = "return"
    /\ last.result.val \in {"None", "empty"}

NoEntryLeft ==
    /\ last.memAfter = <<>>
    /\ last.fileAfter = <<>>
    /\ last.key \notin DOMAIN _memory_cache[last.f]
    /\ last.key \notin DOMAIN files

NothingStored == \A i \in 1..Len(last.trace) : last.trace[i] \notin Stores

\* C4: a call whose wrapped function returns None or an empty DataFrame
\* returns that result and leaves no memory entry and no file of the key,
\* and the next call of the same function with the same arguments runs the
\* wrapped function again
C4_AbsenceNotCached ==
    /\ [](ReturnedAbsence =>
            /\ last.kind = "return" /\ last.val = last.result.val
            /\ NothingStored
            /\ NoEntryLeft)
    /\ [][(ReturnedAbsence /\ last'.f = last.f /\ last'.key = last.key)
            => FuncCalls' = 1]_vars

C4_Witness ==
    /\ ReturnedAbsence
    /\ last.val = "empty"
    /\ last.mem # <<>> /\ last.file # <<>>

\* what a call that refetches after a corrupt file does
Healed ==
    /\ "remove" \in Range(last.trace)
    /\ First("remove") < First("func")
    /\ FuncCalls = 1
    /\ last.served = "origin"
    /\ last.kind = last.result.kind /\ last.val = last.result.val
    /\ last.write \in {"none", "fail"} => last.fileAfter = <<>>
    /\ last.write = "ok" =>
          last.fileAfter = <<[content |-> ToParquet(last.val),
                              mtime |-> last.at, owner |-> last.f]>>

CorruptAtEntry ==
    /\ Called /\ use_disk_cache
    /\ FileAtEntry /\ FileAgeAtEntry < disk_ttl
    /\ ~IsParquet(last.file[1].content)

\* C5 as stated: a call that finds a file of the key within disk_ttl that
\* cannot be deserialised deletes it, runs the wrapped function and returns
\* its result; the read error does not reach the caller
C5_Original == CorruptAtEntry => Healed

\* C5 amended: a call that finds no fresh memory entry and a file of the key
\* within disk_ttl that cannot be deserialised deletes the file, runs the
\* wrapped function once and hands its result (or its error) to the caller;
\* the read error does not reach the caller
C5_CorruptionHeals == (CorruptAtEntry /\ ~MemFreshAtEntry) => Healed

C5_Witness ==
    /\ CorruptAtEntry /\ ~MemFreshAtEntry
    /\ last.kind = "return" /\ IsFrame(last.val)
    /\ last.write = "ok"

\* C6: a call whose wrapped function raises hands the same error to the
\* caller, has run the wrapped function exactly once and leaves nothing
\* stored for the key in either tier
C6_OriginFailure ==
    (Called /\ last.result.kind = "raise") =>
        /\ last.kind = "raise"
        /\ last.val = last.result.val
        /\ FuncCalls = 1
        /\ NothingStored
        /\ NoEntryLeft

C6_Witness ==
    /\ Called /\ last.result.kind = "raise"
    /\ last.kind = "raise"
    /\ last.mem # <<>> /\ last.file # <<>>

\* the file of the key could have served the call
DiskServable ==
    /\ use_disk_cache
    /\ FileAtEntry /\ FileAgeAtEntry < disk_ttl
    /\ IsParquet(last.file[1].content)

DiskReads == {"exists", "stat", "read"}

\* C7: in one call the memory tier is consulted first, the disk tier only
\* after the memory tier missed and the wrapped function only after both
\* tiers missed; a fresh memory entry is returned whatever the state of the
\* file of the key
C7_TierOrder ==
    Called =>
        /\ use_memory_cache => last.trace[1] = "mem.get"
        /\ ~use_memory_cache => "mem.get" \notin Range(last.trace)
        /\ \A i \in 1..Len(last.trace) :
              last.trace[i] \in DiskReads =>
                 /\ use_disk_cache
                 /\ ~MemFreshAtEntry
                 /\ use_memory_cache => First("mem.get") < i
                 /\ FuncCalls = 1 => i < First("func")
        /\ ~use_disk_cache => \A op \in DiskReads : op \notin Range(last.trace)
        /\ FuncCalls <= 1
        /\ FuncCalls = 1 =>
              /\ ~MemFreshAtEntry
              /\ ~DiskServable
              /\ use_memory_cache => First("mem.get") < First("func")
              /\ use_disk_cache =>
                    (0 < First("exists") /\ First("exists") < First("func"))
        /\ (~MemFreshAtEntry /\ ~DiskServable) => FuncCalls = 1
        /\ MemFreshAtEntry =>
              /\ last.served = "memory"
              /\ last.val = last.mem[1].data
              /\ last.trace = <<"mem.get">>

C7_Witness ==
    /\ Called /\ MemFreshAtEntry /\ use_disk_cache
    /\ FileAtEntry /\ FileAgeAtEntry >= disk_ttl
    /\ last.served = "memory"

---------------------------------------------------------------------------
(* Properties of _generate_cache_key.                                      *)

\* C8: the key of an invocation does not change when the same keyword
\* arguments are supplied in another order, and it changes when two unequal
\* positional arguments are exchanged
C8_KeyDeterminism ==
    /\ rel \in {"same", "reorder"} => key2 = key1
    /\ rel = "swap" => key2 # key1

\* C9: the key changes whenever the value of one argument changes, also
\* when the two values differ only in their type
C9_KeySeparatesValues == rel = "replace" => key2 # key1

\* C10: a call served from the disk tier returns a file that was written on
\* behalf of the called function, never one written for another decorated
\* function
C10_KeySeparatesFunctions ==
    (Called /\ last.served = "disk") => last.file[1].owner = last.f

---------------------------------------------------------------------------
(* Properties of _fetch_data_with_fallback, over the resolution recorded   *)
(* in res.                                                                 *)

Resolved == res.kind # "none"
Routed == Resolved /\ primary_source # NoSource
CallSources == [i \in 1..Len(res.calls) |-> res.calls[i].source]
IsPrefix(a, b) == Len(a) <= Len(b) /\ \A i \in 1..Len(a) : a[i] = b[i]
Failed(call) == call.outcome \in {"raise", "None", "empty"}

\* C11: with a primary source, the sources are tried in the order of the
\* candidate list, each at most once; a source that raises or returns None
\* or an empty frame is followed by the next candidate; the first source
\* that returns rows has its rows returned and no later source is called
C11_FallbackOrder ==
    Routed =>
        /\ res.calls # <<>>
        /\ IsPrefix(CallSources, res.cands)
        /\ \A i, j \in 1..Len(res.calls) :
              i # j => res.calls[i].source # res.calls[j].source
        /\ \A i \in 1..Len(res.calls) :
              /\ (Failed(res.calls[i]) /\ i < Len(res.cands))
                    => i < Len(res.calls)
              /\ res.calls[i].outcome = "rows"
                    => /\ i = Len(res.calls)
                       /\ res.kind = "return"
                       /\ res.val = <<"rows", res.calls[i].source>>

C11_Witness ==
    /\ Routed
    /\ Len(res.calls) = 3
    /\ res.calls[1].outcome = "raise"
    /\ res.calls[2].outcome = "empty"
    /\ res.calls[3].outcome = "rows"
    /\ res.kind = "return"
    /\ res.val = <<"rows", res.cands[3]>>

\* what the caller reads about the i-th attempt in the aggregate error
AttemptEntry(call) ==
    IF call.outcome = "raise" THEN <<"failed", call.source, ErrorText>>
    ELSE <<"empty", call.source>>

\* C12: with a primary source the resolution raises one RuntimeError
\* exactly when no source returned rows; its message has one entry for each
\* attempted source, in the order of the attempts, with the source and what
\* it did; a resolution that returns, returns rows, never None or an empty
\* frame
C12_Exhaustion ==
    Routed =>
        /\ res.kind \in {"raise", "return"}
        /\ res.kind = "raise"
              <=> \A i \in 1..Len(res.calls) : res.calls[i].outcome # "rows"
        /\ res.kind = "raise" =>
              /\ res.val = <<"RuntimeError">>
              /\ Len(res.calls) = Len(res.cands)
              /\ Len(res.message) = 2 * Len(res.calls)
              /\ \A i \in 1..Len(res.calls) :
                    res.message[2 * i] = AttemptEntry(res.calls[i])
              /\ \A i \in 1..(Len(res.calls) - 1) :
                    res.message[2 * i + 1] = <<"; ">>
        /\ res.kind = "return" => res.val[1] = "rows"

C12_Witness ==
    /\ Routed
    /\ res.kind = "raise"
    /\ Len(res.calls) = 3
    /\ res.calls[1].outcome = "raise"
    /\ res.calls[2].outcome = "None"
    /\ res.calls[3].outcome = "empty"

\* C13: the candidate list is the primary source followed by the fallback
\* sources, every source once, at the place of its first occurrence; the
\* primary source is the first one tried and no source is tried twice
C13_CandidateList ==
    Routed =>
        LET full == <<primary_source>> \o fallback_sources
            FirstAt(s) == CHOOSE i \in 1..Len(full) :
                              /\ full[i] = s
                              /\ \A j \in 1..(i - 1) : full[j] # s
        IN  /\ Range(res.cands) = Range(full)
            /\ \A i, j \in 1..Len(res.cands) :
                  i < j => FirstAt(res.cands[i]) < FirstAt(res.cands[j])
            /\ res.cands[1] = primary_source
            /\ res.calls[1].source = primary_source
            /\ IsPrefix(CallSources, res.cands)
            /\ \A i, j \in 1..Len(res.calls) :
                  i # j => res.calls[i].source # res.calls[j].source

C13_Witness ==
    /\ Routed
    /\ primary_source = "eastmoney"
    /\ fallback_sources = <<"eastmoney_direct", "eastmoney", "sina">>
    /\ res.cands = <<"eastmoney", "eastmoney_direct", "sina">>
    /\ CallSources = res.cands

\* C14: without a primary source fetch_func is called once, with the
\* caller's arguments and no source; what it returns is returned as it is,
\* also None and an empty frame, what it raises is raised as it is, and no
\* fallback source is tried
C14_NoRouting ==
    (Resolved /\ primary_source = NoSource) =>
        /\ Len(res.calls) = 1
        /\ res.calls[1].source = NoSource
        /\ res.calls[1].kwargs = kwargs
        /\ res.errors = <<>>
        /\ res.message = <<>>
        /\ res.calls[1].outcome = "raise"
              => res.kind = "raise" /\ res.val = <<ErrorText>>
        /\ res.calls[1].outcome \in {"None", "empty"}
              => res.kind = "return" /\ res.val = <<res.calls[1].outcome>>
        /\ res.calls[1].outcome = "rows"
              => res.kind = "return" /\ res.val = <<"rows", NoSource>>

C14_Witness ==
    /\ Resolved
    /\ primary_source = NoSource
    /\ fallback_sources # <<>>
    /\ res.calls[1].outcome = "empty"
    /\ res.kind = "return"
    /\ res.val = <<"empty">>

\* C15: every call of fetch_func in one resolution receives the caller's
\* other arguments as the caller gave them, also after an earlier call
\* changed the arguments it received
C15_ArgumentForwarding ==
    Routed => \A i \in 1..Len(res.calls) : res.calls[i].kwargs = kwargs

C15_Witness ==
    /\ Routed
    /\ mutates
    /\ Len(res.calls) = 3
    /\ res.calls[3].kwargs = kwargs

---------------------------------------------------------------------------
(* The two tiers together, and the age test of the memory tier.            *)

\* the call put an entry of its key into the table
MemoryEntryCreated ==
    /\ Called /\ "mem.set" \in Range(last.trace)
    /\ last.memAfter # <<>>

\* the file of the key holds the payload of the memory entry of the key
Persisted ==
    /\ last.fileAfter # <<>>
    /\ IsParquet(last.fileAfter[1].content)
    /\ FromParquet(last.fileAfter[1].content) = last.memAfter[1].data

\* C18 as stated: with both tiers enabled, the payload of every memory entry
\* is also in the file of the key, also after a disk write failed
C18_Original == (BothTiers /\ MemoryEntryCreated) => Persisted

\* C18: with both tiers enabled, an entry created from a disk hit holds the
\* payload read from the file; an entry created from the result of the
\* wrapped function is created before the disk write is attempted, the file
\* holds its payload at the end of the call when the write succeeded, and
\* when the write failed the entry stays while the file is missing or
\* unreadable
C18_MemoryThenDisk ==
    (BothTiers /\ MemoryEntryCreated) =>
        \/ /\ last.served = "disk"
           /\ First("read") < First("mem.set")
           /\ last.memAfter[1].data = FromParquet(last.file[1].content)
           /\ Persisted
        \/ /\ last.served = "origin"
           /\ First("func") < First("mem.set")
           /\ First("mem.set") < First("write")
           /\ last.memAfter[1].data = last.val
           /\ last.write = "ok" => Persisted
           /\ last.write \in {"fail", "partial"} => ~Persisted

C18_Witness ==
    /\ BothTiers /\ MemoryEntryCreated
    /\ last.served = "origin"
    /\ last.write = "fail"
    /\ last.memAfter[1].data = last.val
    /\ last.fileAfter = <<>>

\* the table held an entry of the key on entry, of age mem_ttl or more
MemStaleAtEntry ==
    /\ use_memory_cache
    /\ last.mem # <<>>
    /\ last.at - last.mem[1].timestamp >= mem_ttl

\* C20: a memory entry is returned only while its age is less than mem_ttl;
\* a call that finds the entry of its key at an age of mem_ttl or more, the
\* age equal to mem_ttl included, deletes it before it looks at the disk
\* tier and does not return it from memory
C20_MemoryExpiry ==
    Called =>
        /\ MemStaleAtEntry =>
              /\ Len(last.trace) >= 2
              /\ last.trace[1] = "mem.get"
              /\ last.trace[2] = "mem.del"
              /\ last.served # "memory"
              /\ last.memAfter # last.mem
              /\ \A i \in 1..Len(last.trace) :
                    last.trace[i] \in DiskReads => i > 2
        /\ last.served = "memory" =>
              /\ last.mem # <<>>
              /\ last.at - last.mem[1].timestamp < mem_ttl

C20_Witness ==
    /\ Called /\ use_memory_cache /\ use_disk_cache
    /\ last.mem # <<>>
    /\ last.at - last.mem[1].timestamp = mem_ttl
    /\ "mem.del" \in Range(last.trace)
    /\ First("mem.del") < First("exists")
    /\ last.served # "memory"

\* the entries of the table of f that are mem_ttl old or older
ExpiredEntries(f) ==
    {k \in DOMAIN _memory_cache[f] :
        now - _memory_cache[f][k].timestamp >= mem_ttl}

\* C19: the number of entries of a memory table stays below a limit, here
\* the number of different keys the callers use, however many keys are
\* called and however many entries have expired without another call
C19_BoundedMemory ==
    \A f \in Decorated :
        Cardinality(DOMAIN _memory_cache[f]) < Cardinality(KeyedInvocations)

---------------------------------------------------------------------------
(* Two threads in wrapper for the same key.                                *)

\* C16: whatever the interleaving of the steps of two calls for the same
\* key, a call fails only with the error of the wrapped function; deleting
\* an expired file, a corrupt file or an expired memory entry never makes a
\* call fail
C16_OnlyOriginFailures ==
    \A t \in Threads :
        loc[t].out.kind = "raise" => loc[t].out.val = "TimeoutError"

\* both calls are over; each found neither an entry nor a file of the key,
\* ran the wrapped function and got rows
ColdRace ==
    \A t \in Threads :
        /\ pc[t] = "idle"
        /\ loc[t].cold
        /\ loc[t].out.kind = "return"
        /\ IsFrame(loc[t].out.val)

OwnResults ==
    \A t \in Threads :
        /\ loc[t].out.val = loc[t].data
        /\ loc[t].out.val = (IF t = 1 THEN "df1" ELSE "df2")

MemoryOfLastWriter ==
    use_memory_cache =>
        /\ memBy \in Threads
        /\ Lookup(_memory_cache[ConcFunc], ConcKey)
              = <<[data |-> loc[memBy].data,
                   timestamp |-> _memory_cache[ConcFunc][ConcKey].timestamp]>>

FileOfLastWriter ==
    /\ diskBy \in Threads
    /\ ConcKey \in DOMAIN files
    /\ files[ConcKey].content = ToParquet(loc[diskBy].data)

---------------------------------------------------------------------------
(* What a call leaves alone.                                               *)

\* C21: a call served from the memory tier does nothing but look the entry
\* up: no operation on cache_dir, and the table, the entry with its
\* timestamp included, the directory and every file, an expired file of the
\* key included, are as they were
C21_MemoryHitFrame ==
    /\ []((Called /\ last.served = "memory") =>
             /\ last.trace = <<"mem.get">>
             /\ last.memAfter = last.mem
             /\ last.fileAfter = last.file)
    /\ [][(last' # last /\ last'.served = "memory") =>
             UNCHANGED <<_memory_cache, files, dir_exists>>]_vars

C21_Witness ==
    /\ Called /\ last.served = "memory"
    /\ last.at > last.mem[1].timestamp
    /\ FileAtEntry /\ FileAgeAtEntry >= disk_ttl
    /\ last.fileAfter = last.file
    /\ Lookup(files, last.key) = last.file
    /\ Lookup(_memory_cache[last.f], last.key) = last.mem

---------------------------------------------------------------------------
(* The age of returned data.                                               *)

\* the age, at the return, of the data the most recent call returned
ReturnedAge == last.at - lastBorn

---------------------------------------------------------------------------
(* Disabled tiers.                                                         *)

MemoryOps == {"mem.get", "mem.set", "mem.del"}
DiskOps == {"mkdir", "exists", "stat", "read", "remove", "write"}

\* C23: with the memory tier disabled no call looks up, stores or deletes
\* an entry and the tables stay empty, also after a disk hit; with the disk
\* tier disabled no call creates cache_dir or reads, writes or deletes a
\* file
C23_DisabledTiers ==
    /\ ~use_memory_cache =>
          /\ \A f \in Decorated : _memory_cache[f] = <<>>
          /\ \A i \in 1..Len(last.trace) : last.trace[i] \notin MemoryOps
          /\ last.mem = <<>> /\ last.memAfter = <<>>
    /\ ~use_disk_cache =>
          /\ files = <<>>
          /\ ~dir_exists
          /\ \A i \in 1..Len(last.trace) : last.trace[i] \notin DiskOps
          /\ last.file = <<>> /\ last.fileAfter = <<>>
          /\ last.served # "disk"

C23_Witness ==
    /\ Called /\ ~use_memory_cache /\ use_disk_cache
    /\ last.served = "disk"
    /\ last.trace = <<"mkdir", "exists", "stat", "read">>
    /\ _memory_cache[last.f] = <<>>

---------------------------------------------------------------------------
(* A miss that stores nothing.                                             *)

\* func ran and raised, or returned None or an empty frame
OriginGaveNothing ==
    /\ Called /\ last.served = "origin"
    /\ \/ last.result.kind = "raise"
       \/ last.result.kind = "return" /\ ~IsFrame(last.result.val)

\* C24: when a call reaches the wrapped function and the function raises or
\* returns None or an empty frame, no entry and no file of the key is left
\* at the end of the call: an expired entry and an expired or corrupt file
\* were removed before the function was called, and nothing is stored
C24_NothingLeftAfterMiss ==
    OriginGaveNothing =>
        /\ last.memAfter = <<>>
        /\ last.fileAfter = <<>>
        /\ last.key \notin DOMAIN _memory_cache[last.f]
        /\ last.key \notin DOMAIN files
        /\ \A i \in 1..Len(last.trace) : last.trace[i] \notin Stores
        /\ (use_memory_cache /\ last.mem # <<>>)
              => /\ "mem.del" \in Range(last.trace)
                 /\ First("mem.del") < First("func")
        /\ (use_disk_cache /\ last.file # <<>>)
              => /\ "remove" \in Range(last.trace)
                 /\ First("remove") < First("func")

C24_Witness ==
    /\ OriginGaveNothing /\ BothTiers
    /\ last.result.kind = "raise"
    /\ last.mem # <<>> /\ last.file # <<>>
    /\ last.memAfter = <<>> /\ last.fileAfter = <<>>
    /\ last.trace = <<"mem.get", "mem.del", "mkdir", "exists", "stat",
                      "remove", "func">>

---------------------------------------------------------------------------
(* A failed disk write.                                                    *)

\* the call fetched data and the write of the file raised
WriteFailed == Called /\ last.write \in {"fail", "partial"}

\* C25: when the write of the fetched data to the file fails, the call
\* still returns the fetched data and raises nothing, and with the memory
\* tier enabled the table holds the data under the key
C25_WriteFailureSwallowed ==
    WriteFailed =>
        /\ last.served = "origin"
        /\ last.result.kind = "return" /\ IsFrame(last.result.val)
        /\ last.kind = "return"
        /\ last.val = last.result.val
        /\ use_memory_cache =>
              last.memAfter = <<[data |-> last.val, timestamp |-> last.at]>>

C25_Witness ==
    /\ WriteFailed /\ BothTiers
    /\ last.write = "partial"
    /\ last.kind = "return" /\ IsFrame(last.val)
    /\ last.memAfter # <<>> /\ last.memAfter[1].data = last.val
    /\ last.fileAfter # <<>> /\ ~IsParquet(last.fileAfter[1].content)

---------------------------------------------------------------------------
(* One resolution after another.                                           *)

\* the calls of the resolution that raised or returned no rows
FailedCalls == SelectSeq(res.calls, Failed)

\* C26: a resolution that follows earlier resolutions, whether they
\* returned or raised, starts with the primary source again, walks the
\* whole candidate list in order until a source returns rows, and its
\* errors and the message of its RuntimeError hold the attempts of this
\* resolution only
C26_IndependentResolutions ==
    (Routed /\ prevKind # "none") =>
        /\ res.cands[1] = primary_source
        /\ res.calls[1].source = primary_source
        /\ IsPrefix(CallSources, res.cands)
        /\ Len(res.calls) < Len(res.cands)
              => res.calls[Len(res.calls)].outcome = "rows"
        /\ Len(res.errors) = Len(FailedCalls)
        /\ \A i \in 1..Len(res.errors) :
              res.errors[i] = AttemptEntry(FailedCalls[i])
        /\ res.kind = "raise" =>
              /\ Len(res.calls) = Len(res.cands)
              /\ Len(res.message) = 2 * Len(res.calls)

C26_Witness ==
    /\ Routed
    /\ prevKind = "raise"
    /\ res.kind = "raise"
    /\ Len(res.cands) = 3
    /\ Len(res.calls) = 3
    /\ Len(res.errors) = 3

=============================================================================
